---------------------------- MODULE Spec2Model ----------------------------
(***************************************************************************)
(* Model of the Slack connector (connector.py: run_sync,                   *)
(* sync_channel_messages, stream_record) and of the MCP tool registrar     *)
(* (mcp_tool_wrapper.py: register_mcp_tools, unregister_mcp_tools).        *)
(*                                                                         *)
(* Python strings on which the code does string work (ids, timestamps,     *)
(* tool names, registry keys) are sequences of one-character strings, so   *)
(* that concatenation, split, lower and "in" are computed, not assumed.    *)
(* None is the one-element sequence NoneStr, which no real string equals.  *)
(* Texts the code only copies are sequences of opaque tokens.              *)
(***************************************************************************)
EXTENDS Naturals, Integers, Sequences, FiniteSets, TLC

VARIABLES
    org_id,             \* data_entities_processor.org_id
    slack_data_source,  \* self.slack_data_source is set (BOOLEAN)
    pc,                 \* position of the run_sync coroutine
    channels,           \* the listing of the pass
    idx,                \* index of the next channel of the for loop
    all_records,        \* all_records_with_permissions
    sinkCalls,          \* arguments of the on_new_records calls of the pass
    fetchLog,           \* per visited channel: id, fetch outcome, records returned
    syncResult,         \* how the pass ended: "none", "returned", "raised"
    lastStream,         \* the last stream_record call since the pass began
    smIn,               \* sync_channel_messages alone: its inputs
    smOut,              \* sync_channel_messages alone: its result
    registry,           \* _global_tools_registry._tools
    lastCall,           \* the last register / unregister call and its result
    lastRun,            \* the last MCPTool.run call since the registry last changed
    firstUser           \* per key of the registry: the user_id of the call that inserted it

slackVars == <<org_id, slack_data_source, pc, channels, idx, all_records,
               sinkCalls, fetchLog, syncResult, lastStream>>
smVars == <<smIn, smOut>>
mcpVars == <<registry, lastCall, lastRun, firstUser>>
vars == <<slackVars, smVars, mcpVars>>

-----------------------------------------------------------------------------
(* Bounds *)

MaxChannels == 2
MaxMsgs == 2
MaxFetched == 2
MaxTools == 2
MaxStreamChannels == 1
MaxStreamMsgs == 1

-----------------------------------------------------------------------------
(* Python values *)

NoneStr == <<"None">>

Truthy(s) == s # NoneStr /\ s # <<>>

Contains(s, c) == \E i \in 1..Len(s) : s[i] = c

RECURSIVE SplitAcc(_, _, _)
SplitAcc(s, sep, cur) ==
    IF s = <<>> THEN <<cur>>
    ELSE IF Head(s) = sep THEN <<cur>> \o SplitAcc(Tail(s), sep, <<>>)
    ELSE SplitAcc(Tail(s), sep, Append(cur, Head(s)))

\* str.split(sep)
Split(s, sep) == SplitAcc(s, sep, <<>>)

SeqsUpTo(S, n) == UNION {[1..k -> S] : k \in 0..n}


-----------------------------------------------------------------------------
(* What the Slack API and the processor can hand to the connector.  Slack   *)
(* ids hold letters and digits, a ts is a decimal "seconds.micros" string   *)
(* that identifies a message within its channel, and a listing names each   *)
(* channel once.                                                            *)

OrgIds == {"", "org1"}

C1id == <<"C", "1">>
C2id == <<"C", "2">>
ChannelIds == {C1id, C2id}

T1 == <<"1", ".", "1">>
T2 == <<"2", ".", "5">>

None == "None"
Hello == <<"hello">>

\* a channel descriptor; id is NoneStr when the key is absent
ChannelDescs == [id : ChannelIds \cup {NoneStr, <<>>}, name : {"general"}]

DistinctIds(l) ==
    \A i, j \in 1..Len(l) : (i # j /\ Truthy(l[i].id)) => l[i].id # l[j].id

ChannelLists(S, n) == {l \in SeqsUpTo(S, n) : DistinctIds(l)}

\* a message; ts is NoneStr and subtype is None when the key is absent,
\* text is <<>> when absent or empty, files counts the attached files
Messages == [ts : {NoneStr, T1, T2},
             subtype : {None, "file_share", "thread_broadcast", "channel_join"},
             text : {<<>>, Hello},
             files : {0, 1},
             user : {"U1"}]

\* the messages the run_sync passes of the model fetch
SyncMessages == {m \in Messages : /\ m.text = Hello /\ m.files = 0
                                  /\ m.subtype \in {None, "channel_join"}
                                  /\ (m.subtype = None \/ m.ts = T1)}

DistinctTs(l) ==
    \A i, j \in 1..Len(l) : (i # j /\ Truthy(l[i].ts)) => l[i].ts # l[j].ts

MessageLists(S, n) == {l \in SeqsUpTo(S, n) : DistinctTs(l)}

\* a SlackResponse of conversations_history, or the call raising
HistoryResponses(S, n) ==
    {[raises |-> TRUE, success |-> FALSE, messages |-> <<>>],
     [raises |-> FALSE, success |-> FALSE, messages |-> <<>>]}
    \cup {[raises |-> FALSE, success |-> TRUE, messages |-> l] :
            l \in MessageLists(S, n)}

\* a SlackResponse of conversations_list, or the call raising
ListResponses(lists) ==
    {[raises |-> TRUE, success |-> FALSE, channels |-> <<>>],
     [raises |-> FALSE, success |-> FALSE, channels |-> <<>>]}
    \cup {[raises |-> FALSE, success |-> TRUE, channels |-> l] : l \in lists}

-----------------------------------------------------------------------------
(* Records and permissions *)

OrgPermission(org) ==
    [type |-> "READ", entity_type |-> "ORG", external_id |-> org]

ChannelRecord(channel, org) ==
    [kind |-> "channel",
     org_id |-> org,
     record_name |-> <<channel.name>>,
     record_type |-> "MESSAGE",
     external_record_id |-> channel.id,
     external_record_group_id |-> channel.id,
     mime_type |-> "FOLDER",
     indexing_status |-> "COMPLETED",
     content |-> <<>>]

ExternalIdNoChannel(channel_id, ts) == <<":">> \o ts

NotDot(c) == c # "."

\* the ts written as in the web link, without its dot
ExternalIdDotless(channel_id, ts) ==
    (channel_id \o <<":">>) \o SelectSeq(ts, NotDot)

\* f"{channel_id}:{ts}"
ExternalId(channel_id, ts) == channel_id \o <<":">> \o ts

MessageRecord(channel_id, msg, org) ==
    [kind |-> "message",
     org_id |-> org,
     record_name |-> <<"Message from", msg.user>> \o msg.text,
     record_type |-> "MESSAGE",
     external_record_id |-> ExternalId(channel_id, msg.ts),
     external_record_group_id |-> channel_id,
     mime_type |-> "PLAIN_TEXT",
     indexing_status |-> "NOT_STARTED",
     content |-> msg.text]

WithPermissionBare(record, perm) == <<record, <<>>>>

\* (record, [org_permission])
WithPermission(record, perm) == <<record, <<perm>>>>

AllowedSubtypes == {"file_share", "thread_broadcast"}

QualifiesAnySubtype(msg) ==
    /\ ~(msg.text = <<>> /\ msg.files = 0)
    /\ Truthy(msg.ts)

\* the three "continue" tests of the message loop
Qualifies(msg) ==
    /\ ~(msg.subtype # None /\ msg.subtype \notin AllowedSubtypes)
    /\ ~(msg.text = <<>> /\ msg.files = 0)
    /\ Truthy(msg.ts)

RECURSIVE MessageRecords(_, _, _, _)
MessageRecords(channel_id, msgs, perm, org) ==
    IF msgs = <<>> THEN <<>>
    ELSE (IF Qualifies(Head(msgs))
          THEN <<WithPermission(MessageRecord(channel_id, Head(msgs), org), perm)>>
          ELSE <<>>)
         \o MessageRecords(channel_id, Tail(msgs), perm, org)

\* sync_channel_messages: exc when the fetch raises, else the records
SyncChannelMessages(channel_id, resp, perm, org) ==
    IF resp.raises THEN [exc |-> TRUE, records |-> <<>>]
    ELSE IF ~resp.success THEN [exc |-> FALSE, records |-> <<>>]
    ELSE [exc |-> FALSE,
          records |-> MessageRecords(channel_id, resp.messages, perm, org)]

-----------------------------------------------------------------------------
(* run_sync, one step per await: the init call, the channel listing, one    *)
(* channel of the for loop (its record and its message fetch), the sink     *)
(* call.  The workspace-info block logs only and has its own try/except.    *)

\* "if not self.slack_data_source: if not await self.init(): raise"
\* init_ok is what init() returns (False on missing config or any exception)
EnsureInit(ds, init_ok) ==
    [raised |-> ~ds /\ ~init_ok, ds |-> ds \/ init_ok]

NextChannelAbortOnFailure(i, n, failed) == IF failed THEN n + 1 ELSE i + 1

\* the for loop goes on to the next channel, also after the except clause
NextChannel(i, n, failed) == i + 1

\* append of the channel record, extend by the message records unless
\* sync_channel_messages raised
AfterChannel(acc, pair, r) ==
    (acc \o <<pair>>) \o (IF r.exc THEN <<>> ELSE r.records)

FetchOutcome(resp) ==
    IF resp.raises THEN "raised"
    ELSE IF ~resp.success THEN "unsuccessful" ELSE "ok"

Begin ==
    /\ pc \in {"idle", "done"}
    /\ \E init_ok \in BOOLEAN :
         LET e == EnsureInit(slack_data_source, init_ok) IN
           /\ slack_data_source' = e.ds
           /\ pc' = IF e.raised THEN "done" ELSE "list"
           /\ syncResult' = IF e.raised THEN "raised" ELSE "none"
    /\ channels' = <<>>
    /\ idx' = 1
    /\ all_records' = <<>>
    /\ sinkCalls' = <<>>
    /\ fetchLog' = <<>>
    /\ lastStream' = [called |-> FALSE]
    /\ UNCHANGED <<org_id, smVars, mcpVars>>

ListChannels(responses) ==
    /\ pc = "list"
    /\ \E resp \in responses :
         IF resp.raises
         THEN /\ pc' = "done" /\ syncResult' = "raised" /\ channels' = <<>>
         ELSE IF ~resp.success
         THEN /\ pc' = "done" /\ syncResult' = "returned" /\ channels' = <<>>
         ELSE /\ pc' = "loop" /\ syncResult' = "none"
              /\ channels' = resp.channels
    /\ UNCHANGED <<org_id, slack_data_source, idx, all_records, sinkCalls,
                   fetchLog, lastStream, smVars, mcpVars>>

ProcessChannel(responses) ==
    /\ pc = "loop"
    /\ idx <= Len(channels)
    /\ LET channel == channels[idx] IN
         IF ~Truthy(channel.id)
         THEN /\ idx' = idx + 1
              /\ fetchLog' = Append(fetchLog,
                    [id |-> channel.id, outcome |-> "noid",
                     messages |-> <<>>, records |-> <<>>])
              /\ UNCHANGED all_records
         ELSE \E resp \in responses :
                LET perm == OrgPermission(org_id)
                    r == SyncChannelMessages(channel.id, resp, perm, org_id)
                IN /\ all_records' = AfterChannel(all_records,
                          WithPermission(ChannelRecord(channel, org_id), perm), r)
                   /\ idx' = NextChannel(idx, Len(channels), r.exc \/ ~resp.success)
                   /\ fetchLog' = Append(fetchLog,
                          [id |-> channel.id, outcome |-> FetchOutcome(resp),
                           messages |-> resp.messages, records |-> r.records])
    /\ UNCHANGED <<org_id, slack_data_source, pc, channels, sinkCalls,
                   syncResult, lastStream, smVars, mcpVars>>

\* after the loop: one on_new_records call when there is anything to send;
\* sink_ok is whether the call returns (an exception of it is re-raised)
Dispatch ==
    /\ pc = "loop"
    /\ idx > Len(channels)
    /\ IF all_records # <<>>
       THEN \E sink_ok \in BOOLEAN :
              /\ sinkCalls' = Append(sinkCalls, all_records)
              /\ syncResult' = IF sink_ok THEN "returned" ELSE "raised"
       ELSE /\ syncResult' = "returned"
            /\ UNCHANGED sinkCalls
    /\ pc' = "done"
    /\ UNCHANGED <<org_id, slack_data_source, channels, idx, all_records,
                   fetchLog, lastStream, smVars, mcpVars>>

-----------------------------------------------------------------------------
(* sync_channel_messages on its own, over every message shape *)

SyncMessagesCall ==
    /\ ~smOut.done
    /\ LET r == SyncChannelMessages(smIn.channel_id, smIn.resp,
                                    OrgPermission(org_id), org_id)
       IN smOut' = [done |-> TRUE, exc |-> r.exc, records |-> r.records]
    /\ UNCHANGED <<slackVars, smIn, mcpVars>>

-----------------------------------------------------------------------------
(* stream_record *)

\* what the point lookup conversations_history(...) can answer; data is
\* "none" when response.data is None, messages is data.get('messages')
LookupResponses ==
    {[raises |-> TRUE, success |-> FALSE, data |-> "none",
      messages |-> <<>>, error |-> "None"]}
    \cup {[raises |-> FALSE, success |-> FALSE, data |-> d,
           messages |-> <<>>, error |-> "channel_not_found"] :
            d \in {"none", "dict"}}
    \cup {[raises |-> FALSE, success |-> TRUE, data |-> "none",
           messages |-> <<>>, error |-> "None"]}
    \cup {[raises |-> FALSE, success |-> TRUE, data |-> "dict",
           messages |-> l, error |-> "None"] :
            l \in {<<>>, <<[text |-> Hello]>>, <<[text |-> <<>>]>>}}

\* records whose external id no sync pass produces
MalformedRecords(org) ==
    {[ChannelRecord([id |-> C1id, name |-> "general"], org)
        EXCEPT !.external_record_id = x] :
       x \in {NoneStr, <<>>, <<":">>, C1id \o <<":">> \o T1 \o <<":">> \o T2}}

\* records a sync pass of this organization emits
EmittedRecords(org) ==
    {ChannelRecord(ch, org) : ch \in {d \in ChannelDescs : Truthy(d.id)}}
    \cup {MessageRecord(c, m, org) :
            c \in ChannelIds, m \in {x \in Messages : Qualifies(x)}}

StreamRaise(lookups) == [exc |-> TRUE, chunk |-> <<>>, lookups |-> lookups]

StreamYield(chunk, lookups) ==
    [exc |-> FALSE, chunk |-> chunk, lookups |-> lookups]

\* the try block of stream_record: exc when a statement of it raises
StreamRecordTry(record, ds, init_ok, lookup) ==
    LET ext_id == record.external_record_id IN
    IF EnsureInit(ds, init_ok).raised THEN StreamRaise(<<>>)
    ELSE IF ext_id = NoneStr THEN StreamRaise(<<>>)
    ELSE IF ~Contains(ext_id, ":")
    THEN StreamYield((<<"Slack Channel: ">> \o record.record_name) \o <<"\n">>,
                     <<>>)
    ELSE LET parts == Split(ext_id, ":") IN
         IF Len(parts) # 2 THEN StreamRaise(<<>>)
         ELSE LET call == [channel |-> parts[1], latest |-> parts[2],
                           inclusive |-> TRUE, limit |-> 1]
              IN IF lookup.raises THEN StreamRaise(<<call>>)
                 ELSE IF ~lookup.success
                 THEN StreamYield(<<"Could not fetch message content: ",
                                    lookup.error>>, <<call>>)
                 ELSE IF lookup.data = "none" THEN StreamRaise(<<call>>)
                 ELSE IF lookup.messages = <<>>
                 THEN StreamYield(<<"Could not fetch message content: ",
                                    lookup.error>>, <<call>>)
                 ELSE StreamYield(lookup.messages[1].text, <<call>>)

StreamRecordExceptReraise(t) ==
    [raised |-> t.exc, chunks |-> IF t.exc THEN <<>> ELSE <<t.chunk>>]

\* the except clause: an exception becomes a response yielding ""
StreamRecordExcept(t) ==
    [raised |-> FALSE, chunks |-> IF t.exc THEN <<<<>>>> ELSE <<t.chunk>>]

\* the records handed to the sink in this pass
SunkRecords ==
    UNION {{sinkCalls[k][i][1] : i \in DOMAIN sinkCalls[k]} : k \in DOMAIN sinkCalls}

StreamRecord(records) ==
    /\ \E record \in records,
          init_ok \in BOOLEAN, lookup \in LookupResponses :
         LET t == StreamRecordTry(record, slack_data_source, init_ok, lookup)
             e == EnsureInit(slack_data_source, init_ok)
             resp == StreamRecordExcept(t)
         IN /\ slack_data_source' = e.ds
            /\ lastStream' = [called |-> TRUE, record |-> record,
                              init_failed |-> e.raised,
                              lookups |-> t.lookups,
                              raised |-> resp.raised, chunks |-> resp.chunks]
    /\ UNCHANGED <<org_id, pc, channels, idx, all_records, sinkCalls,
                   fetchLog, syncResult, smVars, mcpVars>>

\* init() called by another entry point of the connector
InitCall ==
    /\ \E init_ok \in BOOLEAN :
         slack_data_source' = (slack_data_source \/ init_ok)
    /\ UNCHANGED <<org_id, pc, channels, idx, all_records, sinkCalls,
                   fetchLog, syncResult, lastStream, smVars, mcpVars>>

-----------------------------------------------------------------------------
(* The MCP tool registrar *)

UpperCase == <<"A", "B", "C", "D", "E", "F", "G", "H", "I", "J", "K", "L", "M", "N", "O", "P", "Q", "R", "S", "T", "U", "V", "W", "X", "Y", "Z">>
LowerCase == <<"a", "b", "c", "d", "e", "f", "g", "h", "i", "j", "k", "l", "m", "n", "o", "p", "q", "r", "s", "t", "u", "v", "w", "x", "y", "z">>

UpperToLower ==
    [c \in {UpperCase[i] : i \in 1..Len(UpperCase)} |->
       LowerCase[CHOOSE i \in 1..Len(UpperCase) : UpperCase[i] = c]]

LowerChar(c) == IF c \in DOMAIN UpperToLower THEN UpperToLower[c] ELSE c

\* str.lower()
Lower(s) == [i \in 1..Len(s) |-> LowerChar(s[i])]

FirstIndex(s, c) == CHOOSE i \in 1..Len(s) : s[i] = c /\ \A j \in 1..(i - 1) : s[j] # c

\* str.split(sep, 1)
SplitOnce(s, sep) ==
    IF Contains(s, sep)
    THEN <<SubSeq(s, 1, FirstIndex(s, sep) - 1),
           SubSeq(s, FirstIndex(s, sep) + 1, Len(s))>>
    ELSE <<s>>

GmailSendEmail == <<"G", "M", "A", "I", "L", "_", "S", "E", "N", "D", "_", "E", "M", "A", "I", "L">>
SlackPost == <<"S", "L", "A", "C", "K", "_", "P", "O", "S", "T">>
DottedGmailSendEmail == <<"g", "m", "a", "i", "l", ".", "s", "e", "n", "d", "_", "e", "m", "a", "i", "l">>
DottedGmailSend == <<"g", "m", "a", "i", "l", ".", "s", "e", "n", "d">>
Execute == <<"e", "x", "e", "c", "u", "t", "e">>

\* a name that is no string (a number): '"_" in name' raises TypeError
IntName == <<"int">>

IsStr(name) == name # NoneStr /\ name # IntName

\* {}
EmptyDict == <<>>

\* dict.get(key, default)
Get(d, key, default) == IF key \in DOMAIN d THEN d[key] ELSE default

Users == {"u1", "u2"}

\* an entry of mcp_tools: a mapping with a name (<<>> when the key is
\* absent: get("name", "")), or something that is no mapping
Named(n) == [mapping |-> TRUE, name |-> n]

\* the same with a description and a parameter schema of its own
Detailed(n) ==
    [mapping |-> TRUE, name |-> n,
     description |-> <<"Send a mail">>,
     parameters |-> [to |-> <<"string">>]]

NotAMapping == [mapping |-> FALSE, name |-> <<>>]

\* descriptors with a string name, the name absent in the last one
NamedDefs == {Named(GmailSendEmail), Named(SlackPost), Named(<<>>)}

\* the same, with entries whose registration fails
AnyDefs == NamedDefs \cup {Named(NoneStr), Named(IntName), NotAMapping}

\* two descriptors of one name that differ in description and parameters,
\* and a descriptor of another name
FirstWinsDefs ==
    {Named(GmailSendEmail), Detailed(GmailSendEmail), Named(SlackPost)}

\* names already in dotted form, and the compound name of the first
DottedDefs ==
    {Named(DottedGmailSendEmail), Named(DottedGmailSend), Named(GmailSendEmail)}

AppNameSets == SUBSET {<<"g", "m", "a", "i", "l">>, <<"s", "l", "a", "c", "k">>, <<>>}

\* the name parsing of register_mcp_tools
ParseToolName(tool_name) ==
    IF Contains(tool_name, "_")
    THEN LET parts == SplitOnce(Lower(tool_name), "_") IN
         IF Len(parts) = 2
         THEN [app_name |-> parts[1], tool_action |-> parts[2]]
         ELSE [app_name |-> Lower(tool_name), tool_action |-> Execute]
    ELSE IF Contains(tool_name, ".")
    THEN LET parts == SplitOnce(tool_name, ".") IN
         [app_name |-> parts[1], tool_action |-> parts[2]]
    ELSE [app_name |-> Lower(tool_name), tool_action |-> Execute]

\* MCPTool(...): the fields of the wrapper
MCPTool(app_name, tool_name, description, provider, parameters, user_id) ==
    [app_name |-> app_name, tool_name |-> tool_name,
     description |-> description, provider |-> provider,
     parameters |-> parameters, user_id |-> user_id]

\* f"{app_name}.{tool_action}"
FullToolName(app_name, tool_action) == (app_name \o <<".">>) \o tool_action

\* _global_tools_registry.register(tool): stores the tool under
\* "application.action"
RegistryRegister(reg, tool) ==
    LET key == FullToolName(tool.app_name, tool.tool_name) IN
    [k \in DOMAIN reg \cup {key} |-> IF k = key THEN tool ELSE reg[k]]

AlreadyRegisteredNever(reg, key) == FALSE

\* "full_tool_name not in _global_tools_registry._tools", negated
AlreadyRegistered(reg, key) == key \in DOMAIN reg

\* the except clause evaluates tool_def.get('name', 'unknown') for its log
\* line: on an entry that is no mapping that raises again, out of the call
ExceptClauseRaises(tool_def) == ~tool_def.mapping

\* one iteration of the for loop
RegisterOne(reg, tool_def, user_id) ==
    IF ~tool_def.mapping
    THEN [registry |-> reg, added |-> 0, raised |-> ExceptClauseRaises(tool_def)]
    ELSE IF ~IsStr(tool_def.name)
    THEN [registry |-> reg, added |-> 0, raised |-> ExceptClauseRaises(tool_def)]
    ELSE LET p == ParseToolName(tool_def.name)
             tool == MCPTool(p.app_name, p.tool_action,
                             Get(tool_def, "description",
                                 <<"Execute ">> \o tool_def.name),
                             Get(tool_def, "provider", p.app_name),
                             Get(tool_def, "parameters", EmptyDict),
                             user_id)
             key == FullToolName(p.app_name, p.tool_action)
         IN IF AlreadyRegistered(reg, key)
            THEN [registry |-> reg, added |-> 0, raised |-> FALSE]
            ELSE [registry |-> RegistryRegister(reg, tool), added |-> 1,
                  raised |-> FALSE]

RECURSIVE RegisterLoop(_, _, _, _)
RegisterLoop(reg, tools, user_id, count) ==
    IF tools = <<>>
    THEN [registry |-> reg, count |-> count, raised |-> FALSE]
    ELSE LET r == RegisterOne(reg, Head(tools), user_id) IN
         IF r.raised
         THEN [registry |-> r.registry, count |-> count, raised |-> TRUE]
         ELSE RegisterLoop(r.registry, Tail(tools), user_id, count + r.added)

\* register_mcp_tools: the registry after the call, the count returned,
\* raised when the call ends with an exception instead of returning
RegisterMcpTools(reg, mcp_tools, user_id) ==
    IF mcp_tools = <<>>
    THEN [registry |-> reg, count |-> 0, raised |-> FALSE]
    ELSE RegisterLoop(reg, mcp_tools, user_id, 0)

\* the first loop of unregister_mcp_tools
ToolsToRemove(reg, app_names) ==
    {tool_name \in DOMAIN reg :
       /\ Contains(tool_name, ".")
       /\ Truthy(Split(tool_name, ".")[1])
       /\ Split(tool_name, ".")[1] \in app_names}

\* unregister_mcp_tools
UnregisterMcpTools(reg, app_names) ==
    LET gone == ToolsToRemove(reg, app_names) IN
    [registry |-> [k \in DOMAIN reg \ gone |-> reg[k]],
     count |-> Cardinality(gone)]

NoRun == [called |-> FALSE]

\* "if response.status == 200"
HttpOk == 200

Statuses == {HttpOk, 404, 500}

\* f"{response.status}"
StatusText ==
    [st \in Statuses |->
       CASE st = HttpOk -> "200" [] st = 404 -> "404" [] st = 500 -> "500"]

\* str(e) of the exceptions the try block of MCPTool.run can meet
NotSerializable == <<"TypeError: Object is not JSON serializable">>
ConnectFailed == <<"ClientConnectorError: Cannot connect to host">>
NotJson == <<"ContentTypeError: unexpected mimetype">>
NotADict == <<"AttributeError: 'list' object has no attribute 'get'">>
ReadFailed == <<"ClientPayloadError: Response payload is not completed">>

ToolExecutionFailed == <<"Tool execution failed">>

\* what the remote side answers
Payload == [message_id |-> <<"42">>]
RemoteError == <<"quota exceeded">>
ErrorText == <<"Bad Gateway">>

Merge(a, b) ==
    [k \in DOMAIN a \cup DOMAIN b |-> IF k \in DOMAIN a THEN a[k] ELSE b[k]]

\* the JSON objects of a response: each of success, result, error present
\* or absent
Bodies ==
    {Merge(Merge(s, r), e) :
       s \in {EmptyDict, [success |-> TRUE], [success |-> FALSE]},
       r \in {EmptyDict, [result |-> Payload]},
       e \in {EmptyDict, [error |-> RemoteError]}}

\* what a run meets: the post raises before the request leaves (arguments
\* that are not JSON-serializable) or on the way (no connection), or it is
\* answered with a status and a body that is no JSON, a JSON list or a JSON
\* object; reading the text of a non-200 answer may fail. Of the JSON
\* objects, a non-200 answer carries the one that reports success
RunEnvs ==
    {[post |-> p, status |-> HttpOk, kind |-> "none", body |-> EmptyDict,
      text_raises |-> FALSE] : p \in {"unserializable", "unreachable"}}
    \cup
    {e \in [post : {"answered"}, status : Statuses,
            kind : {"invalid", "list", "dict"}, body : Bodies,
            text_raises : BOOLEAN] :
       /\ e.kind # "dict" => e.body = EmptyDict
       /\ e.status = HttpOk => ~e.text_raises
       /\ e.status # HttpOk =>
            /\ e.kind # "list"
            /\ e.kind = "dict" => e.body = [success |-> TRUE, result |-> Payload]}

RunKwargs == {EmptyDict, [to |-> <<"a@b.c">>]}

\* wrappers built directly; user_id defaults to None
BuiltTools ==
    {MCPTool(<<"g", "m", "a", "i", "l">>, Execute, <<"Execute">>,
             <<"g", "m", "a", "i", "l">>, EmptyDict, u) :
       u \in Users \cup {None}}

\* execution_data
ExecutionData(tool, kwargs) ==
    [user_id |-> tool.user_id,
     action |-> FullToolName(tool.app_name, tool.tool_name),
     params |-> kwargs]

RunExceptReraise(tool, e) == [raised |-> TRUE, returned |-> EmptyDict]

\* "except Exception as e" of MCPTool.run
RunExcept(tool, e) ==
    [raised |-> FALSE,
     returned |-> [error |-> e,
                   tool |-> FullToolName(tool.app_name, tool.tool_name)]]

\* the branch of status 200: response.json(), then the success field
RunOk(tool, env) ==
    IF env.kind = "invalid" THEN RunExcept(tool, NotJson)
    ELSE IF env.kind = "list" THEN RunExcept(tool, NotADict)
    ELSE IF Get(env.body, "success", FALSE)
    THEN [raised |-> FALSE, returned |-> Get(env.body, "result", EmptyDict)]
    ELSE [raised |-> FALSE,
          returned |-> [error |-> Get(env.body, "error", ToolExecutionFailed),
                        tool |-> FullToolName(tool.app_name, tool.tool_name)]]

\* the branch of any other status: response.text()
RunNotOk(tool, env) ==
    IF env.text_raises THEN RunExcept(tool, ReadFailed)
    ELSE [raised |-> FALSE,
          returned |-> [error |-> <<"Tool execution failed with status ",
                                    StatusText[env.status]>>,
                        details |-> ErrorText]]

\* MCPTool.run(**kwargs): the request posted, whether it reached the
\* endpoint, and how the call ended
McpToolRun(tool, kwargs, env) ==
    LET out == IF env.post = "unserializable"
               THEN RunExcept(tool, NotSerializable)
               ELSE IF env.post = "unreachable"
               THEN RunExcept(tool, ConnectFailed)
               ELSE IF env.status = HttpOk
               THEN RunOk(tool, env)
               ELSE RunNotOk(tool, env)
    IN [request |-> ExecutionData(tool, kwargs),
        sent |-> env.post = "answered",
        raised |-> out.raised, returned |-> out.returned]

RunTool(tools, envs) ==
    /\ \E tool \in tools, kwargs \in RunKwargs, env \in envs :
         \E r \in {McpToolRun(tool, kwargs, env)} :
           lastRun' = [called |-> TRUE, tool |-> tool, env |-> env,
                       request |-> r.request, sent |-> r.sent,
                       raised |-> r.raised, returned |-> r.returned]
    /\ UNCHANGED <<slackVars, smVars, registry, lastCall, firstUser>>

Register(defs, users) ==
    /\ \E mcp_tools \in SeqsUpTo(defs, MaxTools), user_id \in users :
         \E r \in {RegisterMcpTools(registry, mcp_tools, user_id)} :
           /\ registry' = r.registry
           /\ lastCall' =
                [op |-> "register", tools |-> mcp_tools,
                 raised |-> r.raised, count |-> r.count,
                 added |-> DOMAIN r.registry \ DOMAIN registry,
                 kept |-> \A k \in DOMAIN registry :
                            k \in DOMAIN r.registry /\ r.registry[k] = registry[k],
                 again |-> /\ lastCall.op = "register"
                           /\ ~lastCall.raised
                           /\ lastCall.tools = mcp_tools]
           /\ firstUser' = [k \in DOMAIN r.registry |->
                              IF k \in DOMAIN registry THEN firstUser[k]
                              ELSE user_id]
    /\ lastRun' = NoRun
    /\ UNCHANGED <<slackVars, smVars>>

Unregister ==
    /\ \E app_names \in AppNameSets :
         \E r \in {UnregisterMcpTools(registry, app_names)} :
           /\ registry' = r.registry
           /\ lastCall' =
                [op |-> "unregister", app_names |-> app_names,
                 raised |-> FALSE, count |-> r.count,
                 before |-> DOMAIN registry,
                 kept |-> \A k \in DOMAIN r.registry :
                            k \in DOMAIN registry /\ r.registry[k] = registry[k]]
           /\ firstUser' = [k \in DOMAIN r.registry |-> firstUser[k]]
    /\ lastRun' = NoRun
    /\ UNCHANGED <<slackVars, smVars>>

-----------------------------------------------------------------------------
(* Specifications *)

NoStream == [called |-> FALSE]

Init ==
    /\ org_id \in OrgIds
    /\ slack_data_source = FALSE
    /\ pc = "idle"
    /\ channels = <<>>
    /\ idx = 1
    /\ all_records = <<>>
    /\ sinkCalls = <<>>
    /\ fetchLog = <<>>
    /\ syncResult = "none"
    /\ lastStream = NoStream
    /\ smIn = [channel_id |-> C1id,
               resp |-> [raises |-> FALSE, success |-> TRUE, messages |-> <<>>]]
    /\ smOut = [done |-> TRUE, exc |-> FALSE, records |-> <<>>]
    /\ registry = <<>>
    /\ lastCall = [op |-> "none"]
    /\ lastRun = NoRun
    /\ firstUser = <<>>

\* run_sync passes of one connector
Next ==
    \/ Begin
    \/ ListChannels(ListResponses(ChannelLists(ChannelDescs, MaxChannels)))
    \/ ProcessChannel(HistoryResponses(SyncMessages, MaxMsgs))
    \/ Dispatch

Spec == Init /\ [][Next]_vars

\* sync_channel_messages on every response of the bounded API
InitMessages ==
    /\ org_id = "org1"
    /\ slack_data_source = TRUE
    /\ pc = "idle"
    /\ channels = <<>>
    /\ idx = 1
    /\ all_records = <<>>
    /\ sinkCalls = <<>>
    /\ fetchLog = <<>>
    /\ syncResult = "none"
    /\ lastStream = NoStream
    /\ smIn \in [channel_id : {C1id},
                 resp : HistoryResponses(Messages, MaxFetched)]
    /\ smOut = [done |-> FALSE, exc |-> FALSE, records |-> <<>>]
    /\ registry = <<>>
    /\ lastCall = [op |-> "none"]
    /\ lastRun = NoRun
    /\ firstUser = <<>>

NextMessages == SyncMessagesCall

SpecMessages == InitMessages /\ [][NextMessages]_vars

\* stream_record calls on one connector
NextStream ==
    \/ StreamRecord(EmittedRecords(org_id) \cup MalformedRecords(org_id))
    \/ InitCall

SpecStream == Init /\ [][NextStream]_vars

\* run_sync passes, and stream_record on the records a pass handed to the sink
RoundTripChannels == {d \in ChannelDescs : Truthy(d.id)}

RoundTripMessages ==
    {m \in Messages : /\ m.ts # NoneStr
                      /\ \/ m.subtype = None /\ m.text = Hello /\ m.files = 0
                         \/ m.subtype = "file_share" /\ m.text = <<>> /\ m.files = 1}

NextRoundTrip ==
    \/ Begin
    \/ ListChannels(ListResponses(ChannelLists(RoundTripChannels, MaxStreamChannels)))
    \/ ProcessChannel(HistoryResponses(RoundTripMessages, MaxStreamMsgs))
    \/ Dispatch
    \/ StreamRecord(SunkRecords)

SpecRoundTrip == Init /\ [][NextRoundTrip]_vars

InitMcp == Init /\ org_id = "org1"

\* register / unregister calls on the shared registry
NextMcp == Register(NamedDefs, Users) \/ Unregister

SpecMcp == InitMcp /\ [][NextMcp]_vars

\* the same, with descriptor lists that hold entries whose registration fails
NextMcpErrors == Register(AnyDefs, {"u1"}) \/ Unregister

SpecMcpErrors == InitMcp /\ [][NextMcpErrors]_vars

\* register / unregister calls with names in dotted form
NextMcpDotted == Register(DottedDefs, {"u1"}) \/ Unregister

SpecMcpDotted == InitMcp /\ [][NextMcpDotted]_vars

\* a run that is answered with success
OkEnvs ==
    {[post |-> "answered", status |-> HttpOk, kind |-> "dict",
      body |-> [success |-> TRUE, result |-> Payload], text_raises |-> FALSE]}

\* the tools an agent finds in the registry
RegisteredTools == {registry[k] : k \in DOMAIN registry}

\* register / unregister calls of two users, and runs of registered tools
NextMcpFirstWins ==
    \/ Register(FirstWinsDefs, Users)
    \/ Unregister
    \/ RunTool(RegisteredTools, OkEnvs)

SpecMcpFirstWins == InitMcp /\ [][NextMcpFirstWins]_vars

\* MCPTool.run on wrappers built directly, against every answer
NextRun == RunTool(BuiltTools, RunEnvs)

SpecRun == InitMcp /\ [][NextRun]_vars

-----------------------------------------------------------------------------
(* Properties of run_sync (Spec) *)

SinkCalled == Len(sinkCalls) >= 1

\* the records the visited channels produced: one container record per
\* channel with an id, and what sync_channel_messages returned for it
RECURSIVE ProducedCount(_)
ProducedCount(log) ==
    IF log = <<>> THEN 0
    ELSE (IF Head(log).outcome = "noid" THEN 0 ELSE 1 + Len(Head(log).records))
         + ProducedCount(Tail(log))

IsOrgReadPair(pair) ==
    /\ Len(pair) = 2
    /\ pair[2] = <<[type |-> "READ", entity_type |-> "ORG",
                    external_id |-> org_id]>>

\* C1: in a pass the sink is called at most once, never before the last
\* channel of the listing has been processed, with every record the pass
\* produced, each paired with the organization-scope READ permission of the
\* invoking organization; this also holds for a pass that ends with an error.
C1_SinkOnceWithWholeBatch ==
    /\ Len(sinkCalls) <= 1
    /\ pc # "done" => sinkCalls = <<>>
    /\ SinkCalled =>
         /\ Len(fetchLog) = Len(channels)
         /\ idx > Len(channels)
         /\ Len(sinkCalls[1]) = ProducedCount(fetchLog)
         /\ sinkCalls[1] = all_records
         /\ \A i \in 1..Len(sinkCalls[1]) : IsOrgReadPair(sinkCalls[1][i])
    /\ (pc = "done" /\ syncResult = "returned" /\ ProducedCount(fetchLog) > 0)
         => SinkCalled

\* a pass that ended with an error of the sink, after handing it the
\* records of two channels
C1_Witness ==
    /\ SinkCalled
    /\ syncResult = "raised"
    /\ Len(channels) = 2
    /\ Len(sinkCalls[1]) >= 3

\* whether batch is, channel by channel, the container record of each
\* channel with an id followed by the message records logged for it
RECURSIVE BatchFollowsLog(_, _)
BatchFollowsLog(batch, log) ==
    IF log = <<>> THEN batch = <<>>
    ELSE LET e == Head(log)
             n == IF e.outcome = "ok" THEN Len(e.records) ELSE 0
         IN IF e.outcome = "noid" THEN BatchFollowsLog(batch, Tail(log))
            ELSE /\ Len(batch) >= 1 + n
                 /\ batch[1][1].kind = "channel"
                 /\ batch[1][1].external_record_id = e.id
                 /\ \A j \in 1..n : batch[1 + j] = e.records[j]
                 /\ BatchFollowsLog(SubSeq(batch, 2 + n, Len(batch)), Tail(log))

\* C2: whichever channels' message fetches fail (unsuccessful response or
\* exception), every channel of the listing is visited, and the batch handed
\* to the sink holds the container record of every channel with an id and the
\* message records of every channel whose fetch did not fail.
C2_FetchFailureSkipsOnlyThatChannel ==
    /\ (pc = "done" /\ channels # <<>>) => Len(fetchLog) = Len(channels)
    /\ \A i \in 1..Len(fetchLog) : fetchLog[i].id = channels[i].id
    /\ SinkCalled => BatchFollowsLog(sinkCalls[1], fetchLog)
    /\ (pc = "done" /\ \E i \in 1..Len(fetchLog) : fetchLog[i].outcome # "noid")
         => SinkCalled

\* a fetch that raises on the first channel, then a second channel whose
\* two messages reach the sink
C2_Witness ==
    /\ SinkCalled
    /\ Len(fetchLog) = 2
    /\ fetchLog[1].outcome = "raised"
    /\ fetchLog[2].outcome = "ok"
    /\ Len(fetchLog[2].records) = 2
    /\ Len(sinkCalls[1]) = 4

\* C3: every message record of the batch has the external id
\* "{channel_id}:{ts}" of a fetched message of its channel, and no two
\* records of the batch have the same external id.
C3_CompositeIdsUnique ==
    SinkCalled =>
      LET batch == sinkCalls[1] IN
        /\ \A i \in 1..Len(batch) :
             batch[i][1].kind = "message" =>
               \E k \in 1..Len(fetchLog) :
                 \E j \in 1..Len(fetchLog[k].messages) :
                   LET m == fetchLog[k].messages[j] IN
                     /\ m.ts # NoneStr
                     /\ batch[i][1].external_record_group_id = fetchLog[k].id
                     /\ batch[i][1].content = m.text
                     /\ batch[i][1].external_record_id
                          = (fetchLog[k].id \o <<":">>) \o m.ts
        /\ \A i, j \in 1..Len(batch) :
             i # j => batch[i][1].external_record_id
                        # batch[j][1].external_record_id

\* two channels that each hold a message with the same timestamp
C3_Witness ==
    /\ SinkCalled
    /\ \E i, j \in 1..Len(sinkCalls[1]) :
         /\ sinkCalls[1][i][1].external_record_id = (C1id \o <<":">>) \o T1
         /\ sinkCalls[1][j][1].external_record_id = (C2id \o <<":">>) \o T1

\* C5: every record handed to the sink has a non-empty organization id and
\* a non-empty external record id.
C5_RecordsCarryOrgAndExternalId ==
    SinkCalled =>
      \A i \in 1..Len(sinkCalls[1]) :
        /\ sinkCalls[1][i][1].org_id # ""
        /\ sinkCalls[1][i][1].external_record_id # <<>>
        /\ sinkCalls[1][i][1].external_record_id # NoneStr

-----------------------------------------------------------------------------
(* Properties of sync_channel_messages (SpecMessages) *)

HasTimestamp(m) == m.ts # NoneStr /\ m.ts # <<>>

SubtypePasses(m) ==
    m.subtype = None \/ m.subtype \in {"file_share", "thread_broadcast"}

HasBody(m) == m.text # <<>> \/ m.files >= 1

ShouldYieldRecord(m) == HasTimestamp(m) /\ SubtypePasses(m) /\ HasBody(m)

\* C4: a fetched message yields a record exactly when it has a timestamp,
\* has no subtype or one of file_share / thread_broadcast, and has text or a
\* file; the records come in the order of the fetched messages.
C4_QualifyingMessagesInOrder ==
    (smOut.done /\ smIn.resp.success) =>
      LET kept == SelectSeq(smIn.resp.messages, ShouldYieldRecord) IN
        /\ ~smOut.exc
        /\ Len(smOut.records) = Len(kept)
        /\ \A i \in 1..Len(kept) :
             /\ smOut.records[i][1].external_record_id
                  = (smIn.channel_id \o <<":">>) \o kept[i].ts
             /\ smOut.records[i][1].content = kept[i].text

\* a join message is dropped, a file share without text is kept
C4_Witness ==
    /\ smOut.done
    /\ Len(smIn.resp.messages) = 2
    /\ smIn.resp.messages[1].subtype = "channel_join"
    /\ smIn.resp.messages[1].text = Hello
    /\ HasTimestamp(smIn.resp.messages[1])
    /\ smIn.resp.messages[2].subtype = "file_share"
    /\ smIn.resp.messages[2].text = <<>>
    /\ Len(smOut.records) = 1

-----------------------------------------------------------------------------
(* Properties of stream_record (SpecStream, SpecRoundTrip) *)

\* C6: stream_record returns a response, whatever the record and whatever
\* init and the lookup do, and the response's generator yields one chunk.
C6_StreamAlwaysYieldsOneChunk ==
    lastStream.called =>
      /\ ~lastStream.raised
      /\ Len(lastStream.chunks) = 1

\* the connector could not be initialized, and a record without external id
C6_Witness ==
    /\ lastStream.called
    /\ lastStream.init_failed
    /\ lastStream.record.external_record_id = NoneStr
    /\ lastStream.chunks = <<<<>>>>

PointLookup(c, ts) ==
    [channel |-> c, latest |-> ts, inclusive |-> TRUE, limit |-> 1]

\* C7: for the message record a pass emitted for channel c and a message
\* with timestamp ts, stream_record issues exactly the lookup (c, ts,
\* inclusive, limit 1); for a container record it issues none and yields the
\* channel description.
C7_ExternalIdRoundTrip ==
    lastStream.called =>
      \A k \in 1..Len(fetchLog) :
        LET e == fetchLog[k]
            src == SelectSeq(e.messages, ShouldYieldRecord)
        IN /\ e.outcome = "ok" =>
                \A j \in 1..Len(e.records) :
                  lastStream.record = e.records[j][1] =>
                    /\ j <= Len(src)
                    /\ lastStream.lookups = <<PointLookup(e.id, src[j].ts)>>
           /\ (e.outcome # "noid"
                 /\ lastStream.record.kind = "channel"
                 /\ lastStream.record.external_record_id = e.id) =>
                /\ lastStream.lookups = <<>>
                /\ lastStream.chunks
                     = <<<<"Slack Channel: ", channels[k].name, "\n">>>>

\* a message record of channel C2 streamed back after its pass
C7_Witness ==
    /\ lastStream.called
    /\ lastStream.record.kind = "message"
    /\ lastStream.record \in SunkRecords
    /\ lastStream.lookups = <<PointLookup(C2id, T2)>>
    /\ lastStream.chunks = <<Hello>>

-----------------------------------------------------------------------------
(* Properties of the registrar (SpecMcp, SpecMcpErrors) *)

KeyGmailSendEmail == <<"g", "m", "a", "i", "l", ".", "s", "e", "n", "d", "_", "e", "m", "a", "i", "l">>
KeySlackPost == <<"s", "l", "a", "c", "k", ".", "p", "o", "s", "t">>

\* the key a descriptor with a compound name is to be found under
CompoundKey(name) == IF name = GmailSendEmail THEN KeyGmailSendEmail ELSE KeySlackPost

IsCompound(tool_def) ==
    tool_def.mapping /\ tool_def.name \in {GmailSendEmail, SlackPost}

\* C8: register_mcp_tools registers APP_ACTION_WORDS under the lower-cased
\* key "app.action_words", touches no entry that exists, returns the number
\* of keys it added, and a second call with the same descriptors returns 0
\* and leaves the registry as it is.
C8_RegisterInsertIfAbsentIdempotent ==
    lastCall.op = "register" =>
      /\ ~lastCall.raised
      /\ lastCall.kept
      /\ lastCall.count = Cardinality(lastCall.added)
      /\ \A i \in 1..Len(lastCall.tools) :
           IsCompound(lastCall.tools[i]) =>
             LET key == CompoundKey(lastCall.tools[i].name) IN
               /\ key \in DOMAIN registry
               /\ (registry[key].app_name \o <<".">>) \o registry[key].tool_name
                    = key
      /\ lastCall.again => (lastCall.count = 0 /\ lastCall.added = {})
      /\ \A u \in Users :
           RegisterMcpTools(registry, lastCall.tools, u)
             = [registry |-> registry, count |-> 0, raised |-> FALSE]

\* the same two descriptors submitted a second time
C8_Witness ==
    /\ lastCall.op = "register"
    /\ lastCall.again
    /\ lastCall.tools = <<Named(GmailSendEmail), Named(SlackPost)>>
    /\ lastCall.count = 0
    /\ {KeyGmailSendEmail, KeySlackPost} \subseteq DOMAIN registry

HasDot(key) == \E i \in 1..Len(key) : key[i] = "."

\* the text of a key before its first '.'
PrefixOf(key) ==
    SubSeq(key, 1, (CHOOSE i \in 1..Len(key) :
                      key[i] = "." /\ \A j \in 1..(i - 1) : key[j] # ".") - 1)

PrefixTargets(keys, app_names) ==
    {k \in keys : HasDot(k) /\ PrefixOf(k) \in app_names}

\* C9: unregister_mcp_tools(app_names) removes exactly the entries whose
\* application prefix is in app_names, leaves every other entry as it is, and
\* returns the number of entries removed.
C9_UnregisterRemovesExactlyPrefix ==
    lastCall.op = "unregister" =>
      LET targets == PrefixTargets(lastCall.before, lastCall.app_names) IN
        /\ DOMAIN registry = lastCall.before \ targets
        /\ lastCall.kept
        /\ lastCall.count = Cardinality(targets)

\* what the code does instead: an entry with an empty application prefix
\* (".execute", from a descriptor without a name) is never removed
C9_NonEmptyPrefixesRemoved ==
    lastCall.op = "unregister" =>
      LET targets == {k \in PrefixTargets(lastCall.before, lastCall.app_names) :
                        PrefixOf(k) # <<>>}
      IN /\ DOMAIN registry = lastCall.before \ targets
         /\ lastCall.kept
         /\ lastCall.count = Cardinality(targets)

\* C10: a descriptor whose registration fails is skipped: the call returns
\* and every compound-named descriptor of the list, before or after the bad
\* entry, is registered.
C10_BadDescriptorSkipped ==
    lastCall.op = "register" =>
      /\ ~lastCall.raised
      /\ \A i \in 1..Len(lastCall.tools) :
           IsCompound(lastCall.tools[i]) =>
             CompoundKey(lastCall.tools[i].name) \in DOMAIN registry

\* what holds of the code: entries with a name that is no string are
\* skipped, and the call ends with an exception exactly when the list holds
\* an entry that is no mapping, the entries before it registered
C10_OnlyNonMappingAborts ==
    lastCall.op = "register" =>
      LET bad == {i \in 1..Len(lastCall.tools) : ~lastCall.tools[i].mapping} IN
        /\ lastCall.raised <=> bad # {}
        /\ \A i \in 1..Len(lastCall.tools) :
             (IsCompound(lastCall.tools[i]) /\ \A b \in bad : i < b) =>
               CompoundKey(lastCall.tools[i].name) \in DOMAIN registry


-----------------------------------------------------------------------------
(* Properties of MCPTool.run (SpecRun) *)

\* the endpoint answered status 200 with a JSON object whose success is true
RunSucceeded(env) ==
    /\ env.post = "answered"
    /\ env.status = HttpOk
    /\ env.kind = "dict"
    /\ "success" \in DOMAIN env.body
    /\ env.body.success

\* C11: MCPTool.run never raises. When the endpoint answers status 200 with
\* success true it returns the body's result field ({} when the body has
\* none); in every other case (success false or absent, a non-200 status,
\* the post or the reading of the answer raising) it returns an object with
\* an "error" field.
C11_RunReturnsResultOrErrorObject ==
    lastRun.called =>
      /\ ~lastRun.raised
      /\ IF RunSucceeded(lastRun.env)
         THEN IF "result" \in DOMAIN lastRun.env.body
              THEN lastRun.returned = lastRun.env.body.result
              ELSE lastRun.returned = EmptyDict
         ELSE "error" \in DOMAIN lastRun.returned

\* a 200 answer whose JSON is a list: result.get raises inside the try, and
\* the call returns the error object of the except clause
C11_Witness ==
    /\ lastRun.called
    /\ lastRun.env.post = "answered"
    /\ lastRun.env.status = HttpOk
    /\ lastRun.env.kind = "list"
    /\ ~lastRun.raised
    /\ lastRun.returned = [error |-> NotADict,
                           tool |-> FullToolName(lastRun.tool.app_name,
                                                 lastRun.tool.tool_name)]

\* the success case is reached: the result of the body comes back as it is
C11_SuccessReached ==
    /\ lastRun.called
    /\ RunSucceeded(lastRun.env)
    /\ lastRun.returned = Payload


-----------------------------------------------------------------------------
(* Properties of register_mcp_tools on dotted names (SpecMcpDotted) *)

\* the text of a key after its first '.'
AfterDot(key) ==
    SubSeq(key, (CHOOSE i \in 1..Len(key) :
                   key[i] = "." /\ \A j \in 1..(i - 1) : key[j] # ".") + 1,
           Len(key))

IsDotted(tool_def) ==
    tool_def.mapping /\ tool_def.name \in {DottedGmailSendEmail, DottedGmailSend}

\* the name is gmail.send_email, dotted or compound
NamesGmailSendEmail(tool_def) ==
    tool_def.mapping /\ tool_def.name \in {DottedGmailSendEmail, GmailSendEmail}

\* C12: after register_mcp_tools, every descriptor name of the form
\* "app.action" is in the registry under that very key, with application
\* "app" and action "action"; a call whose names are all gmail.send_email or
\* GMAIL_SEND_EMAIL adds no key but "gmail.send_email".
C12_DottedNameKeepsItsKey ==
    lastCall.op = "register" =>
      /\ \A i \in 1..Len(lastCall.tools) :
           IsDotted(lastCall.tools[i]) =>
             LET n == lastCall.tools[i].name IN
               /\ n \in DOMAIN registry
               /\ registry[n].app_name = PrefixOf(n)
               /\ registry[n].tool_name = AfterDot(n)
      /\ (\A i \in 1..Len(lastCall.tools) : NamesGmailSendEmail(lastCall.tools[i]))
           => lastCall.added \subseteq {KeyGmailSendEmail}

\* C12, for dotted names without '_': the name is split at its first '.'
\* and is its own key.
C12_DottedWithoutUnderscoreKeepsKey ==
    lastCall.op = "register" =>
      \A i \in 1..Len(lastCall.tools) :
        (lastCall.tools[i].mapping /\ lastCall.tools[i].name = DottedGmailSend) =>
          /\ DottedGmailSend \in DOMAIN registry
          /\ registry[DottedGmailSend].app_name = PrefixOf(DottedGmailSend)
          /\ registry[DottedGmailSend].tool_name = AfterDot(DottedGmailSend)

\* C12: what the code does with "gmail.send_email": the name holds '_', so
\* it is split at the '_' and stored under "gmail.send.email".
C12_DottedWithUnderscoreSplitAtUnderscore ==
    (/\ lastCall.op = "register"
     /\ lastCall.tools = <<Named(DottedGmailSendEmail)>>
     /\ lastCall.count = 1)
      => /\ lastCall.added = {<<"g", "m", "a", "i", "l", ".", "s", "e", "n", "d", ".", "e", "m", "a", "i", "l">>}
         /\ KeyGmailSendEmail \notin lastCall.added


-----------------------------------------------------------------------------
(* Properties of registration by several users (SpecMcpFirstWins) *)

DefaultDescription == <<"Execute ">> \o GmailSendEmail

\* C13: first registration wins. Every key of the registry holds the
\* user_id of the call that inserted it, whatever register calls came later
\* for that key; a register call leaves every entry that existed as it was;
\* and a run of a registered tool sends the user_id of the call that inserted
\* its key.
C13_FirstRegistrationWins ==
    /\ DOMAIN firstUser = DOMAIN registry
    /\ \A k \in DOMAIN registry : registry[k].user_id = firstUser[k]
    /\ lastCall.op = "register" => lastCall.kept
    /\ lastRun.called =>
         /\ lastRun.request.action \in DOMAIN registry
         /\ lastRun.request.user_id = firstUser[lastRun.request.action]

\* u1 registered GMAIL_SEND_EMAIL without description; later u2 (who owns
\* slack.post, added by that same call) registered it again with another
\* description and parameters; the entry is as u1 left it, and running it
\* sent "u1"
C13_Witness ==
    /\ lastCall.op = "register"
    /\ lastCall.tools = <<Named(SlackPost), Detailed(GmailSendEmail)>>
    /\ lastCall.added = {KeySlackPost}
    /\ registry[KeySlackPost].user_id = "u2"
    /\ firstUser[KeyGmailSendEmail] = "u1"
    /\ registry[KeyGmailSendEmail].user_id = "u1"
    /\ registry[KeyGmailSendEmail].description = DefaultDescription
    /\ registry[KeyGmailSendEmail].parameters = EmptyDict
    /\ lastRun.called
    /\ lastRun.request.action = KeyGmailSendEmail
    /\ lastRun.request.user_id = "u1"

=============================================================================
